---------------------------- MODULE Spec2Model ----------------------------
(***************************************************************************)
(* A model of cairocffi/fonts.py: the wrappers FontFace, ToyFontFace,      *)
(* ScaledFont and FontOptions around foreign cairo handles, the release    *)
(* actions attached with ffi.gc, the foreign reference counts, the type    *)
(* dispatch of FontFace._from_pointer, the buffer protocol of              *)
(* ScaledFont.text_to_glyphs and the value semantics of FontOptions.       *)
(***************************************************************************)
EXTENDS Integers, Sequences, FiniteSets, Bags, TLC

\* ------------------------------------------------------------------ bounds
\* Foreign objects the heap can hold (two exist initially, the rest are
\* created by ToyFontFace() and FontOptions()).
MaxHandles == 3
\* Wrapper objects created over one run.
MaxWrappers == 2
\* Entries of the glyph array and of the cluster array a shaping call returns.
MaxGlyphs == 2
MaxClusters == 2
\* FontOptions instances alive at a time.
MaxOptions == 2
\* Length of a variations string passed to set_variations.
MaxLen == 2

\* ---------------------------------------------------------------- constants
\* ffi.NULL
Null == 0
\* constants.FONT_TYPE_TOY, the key of FONT_TYPE_TO_CLASS
FONT_TYPE_TOY == 0

Handles == 1..MaxHandles
\* A type tag FONT_TYPE_TO_CLASS has no entry for (any FONT_TYPE_* but TOY).
FONT_TYPE_OTHER == 1
Tags == {FONT_TYPE_TOY, FONT_TYPE_OTHER}
\* The statuses a foreign object can report; one non-success code stands for
\* all of them, _check_status treats them alike.
Statuses == {"SUCCESS", "NO_MEMORY"}
\* What a status query that dereferences ffi.NULL can do: abort the process,
\* or return whatever the read produced.
NullDeref == {"crash", "SUCCESS", "NO_MEMORY"}

VARIABLES
    heap,        \* handle -> the foreign object: kind, refs (the foreign count),
                 \* ext (references callers hold), held (references other
                 \* foreign objects hold), tag, face
    wrappers,    \* the Python wrapper objects, a multiset of records: cls, ptr
                 \* (self._pointer), gc (a release action is attached), rel
                 \* (times it ran), raised (construction raised), st
    last,        \* the wrapping operation that has just completed (NoOp after any
                 \* other step): its inputs, foreign calls and outcome
    crashed,     \* the process was aborted by a null dereference
    doubleFree   \* a destroy call reached an object already freed

hvars == <<heap, wrappers, last, crashed, doubleFree>>

\* ScaledFont.text_to_glyphs
VARIABLES
    tpc,         \* where text_to_glyphs is: idle, called, guarded, copy_glyphs,
                 \* copy_clusters, returned, raised
    targs,       \* with_clusters, and the cluster arguments passed to the call
    tstatus,     \* the status the shaping call returned
    fbuf,        \* array -> alloc (the call allocated it), data, frees (the
                 \* deallocators called on it, in order)
    tnum,        \* array -> the count the call reported (num_glyphs[0], ...)
    guard,       \* array -> the ffi.gc object made for it: ptr, fn, st (none,
                 \* held, unreachable, run)
    tlist,       \* array -> the Python list built from it so far
    tret,        \* the value returned
    freeCalls,   \* every deallocator call made: <<function, pointer>>
    readFreed    \* an entry was read from an array already freed

gvars == <<tpc, targs, tstatus, fbuf, tnum, guard, tlist, tret, freeCalls,
           readFreed>>

\* FontOptions
VARIABLES
    ofo,         \* options handle -> the foreign object: alive, val
    oinst,       \* slot -> the FontOptions instance in it: st (none, live,
                 \* failed: its construction raised), ptr (self._pointer)
    olast        \* the call that has just completed: op (raised when it
                 \* raised), the foreign status after its foreign call, result
                 \* (ok: it returned normally, or CairoError)

ovars == <<ofo, oinst, olast>>

\* FontOptions.set_variations / get_variations on one instance
VARIABLES
    vfo,         \* the variations string the foreign object holds: a null
                 \* pointer, or the bytes of a C string with its terminator
    varg,        \* the argument of the last set_variations call that returned
    vlast        \* the call that has just completed: op (raised when it
                 \* raised), result, null (the foreign accessor returned NULL)

vvars == <<vfo, varg, vlast>>

\* ------------------------------------------------------------ foreign heap
NoObject == [kind |-> "none", refs |-> 0, ext |-> 0, held |-> 0, tag |-> 0,
             face |-> Null]

\* A foreign object as its constructor returns it: one reference, the caller's.
NewObject(kind, tag) ==
    [kind |-> kind, refs |-> 1, ext |-> 0, held |-> 0, tag |-> tag,
     face |-> Null]

Alive(hp, h) == h # Null /\ hp[h].kind # "none" /\ hp[h].refs > 0

\* The lowest handle no object was ever created at (0 when there is none).
FreshHandle(hp) ==
    IF \E h \in Handles : hp[h].kind = "none"
    THEN CHOOSE h \in Handles :
            hp[h].kind = "none" /\ \A k \in Handles : hp[k].kind = "none" => h <= k
    ELSE Null

\* cairo_*_reference(p): one more reference to a live object.
Reference(hp, p) ==
    IF Alive(hp, p) THEN [hp EXCEPT ![p].refs = @ + 1] ELSE hp

\* One reference of p is dropped; the object is freed when the last one goes,
\* and a freed scaled font drops the reference it holds on its font face.
Unref(hp, p) ==
    LET hp1 == [hp EXCEPT ![p].refs = @ - 1]
        f == hp[p].face
    IN  IF hp1[p].refs = 0 /\ hp[p].kind = "scaled" /\ Alive(hp1, f)
        THEN [hp1 EXCEPT ![f].refs = @ - 1, ![f].held = @ - 1]
        ELSE hp1

\* cairo_*_destroy(p) as the release action calls it: a no-op on ffi.NULL,
\* a double free on an object that is already gone.
Destroy(hp, p) == IF Alive(hp, p) THEN Unref(hp, p) ELSE hp
IsDoubleFree(hp, p) == p # Null /\ ~Alive(hp, p)

\* ----------------------------------------------------------------- status
\* _check_status(status): the success sentinel passes, any other raises.
CheckStatus(s) == IF s = "SUCCESS" THEN "ok" ELSE "CairoError"

\* cairo_*_status(pointer): `reported` is what the foreign library answers, a
\* status for an object, and for ffi.NULL whatever the undefined read of the
\* status field does. A status is the library's to set (an error is raised by
\* any failing foreign call), so it is an input of each query.
Reported(p) == IF p = Null THEN NullDeref ELSE Statuses

\* --------------------------------------------------------------- wrappers
NoWrapper == [cls |-> "none", ptr |-> Null, gc |-> FALSE, rel |-> 0,
              raised |-> FALSE, st |-> "none"]
NoOp == [op |-> "none", cls |-> "none", ptr |-> Null, incref |-> FALSE,
         calls |-> <<>>, result |-> "ok", w |-> NoWrapper, made |-> Null]

\* The foreign kind each wrapper class stands for.
KindOf(cls) ==
    CASE cls = "ScaledFont" -> "scaled"
      [] cls = "FontOptions" -> "options"
      [] OTHER -> "face"

\* FontFace.__init__(self, pointer), ScaledFont._init_pointer and
\* FontOptions._init_pointer: the release action is attached first, then the
\* status is checked. A wrapper whose construction raised is unreachable at
\* once (garbage), with the release action it was given.
InitPointerChecksFirst(cls, p, reported) ==
    LET s == reported
        r == IF s = "crash" THEN "crash" ELSE CheckStatus(s)
    IN  [wrapper |-> [cls |-> cls, ptr |-> p, gc |-> (r = "ok"), rel |-> 0,
                      raised |-> (r # "ok"),
                      st |-> IF r = "ok" THEN "live" ELSE "garbage"],
         calls |-> <<"status">>,
         result |-> r]

InitPointer(cls, p, reported) ==
    LET s == reported
        r == IF s = "crash" THEN "crash" ELSE CheckStatus(s)
    IN  [wrapper |-> [cls |-> cls, ptr |-> p, gc |-> TRUE, rel |-> 0,
                      raised |-> (r # "ok"),
                      st |-> IF r = "ok" THEN "live" ELSE "garbage"],
         calls |-> <<"status">>,
         result |-> r]

\* FONT_TYPE_TO_CLASS.get(tag, FontFace)
FontTypeToClassNoDefault(tag) ==
    IF tag = FONT_TYPE_TOY THEN "ToyFontFace" ELSE "KeyError"

FontTypeToClass(tag) ==
    IF tag = FONT_TYPE_TOY THEN "ToyFontFace" ELSE "FontFace"

\* What a _from_pointer call that raised on ffi.NULL leaves behind.
NullPointerError(hp) ==
    [heap |-> hp, made |-> FALSE, wrapper |-> <<>>, calls |-> <<>>,
     result |-> "ValueError"]

\* FontFace._from_pointer(pointer, incref)
FontFaceFromPointerNoIncref(hp, p, incref, reported) ==
    IF p = Null THEN NullPointerError(hp)
    ELSE LET cls == FontTypeToClass(hp[p].tag)
             init == InitPointer(cls, p, reported)
         IN  [heap |-> hp, made |-> TRUE, wrapper |-> init.wrapper,
              calls |-> <<"get_type">> \o init.calls, result |-> init.result]

FontFaceFromPointerLateNullCheck(hp, p, incref, reported) ==
    LET hp1 == IF incref THEN Reference(hp, p) ELSE hp
        c1 == IF incref THEN <<"reference">> ELSE <<>>
    IN  IF p = Null
        THEN [NullPointerError(hp) EXCEPT !.calls = c1]
        ELSE LET cls == FontTypeToClass(hp1[p].tag)
                 init == InitPointer(cls, p, reported)
             IN  [heap |-> hp1, made |-> TRUE, wrapper |-> init.wrapper,
                  calls |-> c1 \o <<"get_type">> \o init.calls,
                  result |-> init.result]

FontFaceFromPointer(hp, p, incref, reported) ==
    IF p = Null THEN NullPointerError(hp)
    ELSE LET hp1 == IF incref THEN Reference(hp, p) ELSE hp
             c1 == IF incref THEN <<"reference">> ELSE <<>>
             cls == FontTypeToClass(hp1[p].tag)
             init == InitPointer(cls, p, reported)
         IN  [heap |-> hp1, made |-> TRUE, wrapper |-> init.wrapper,
              calls |-> c1 \o <<"get_type">> \o init.calls,
              result |-> init.result]

\* ScaledFont._from_pointer(pointer, incref)
ScaledFontFromPointer(hp, p, incref, reported) ==
    IF p = Null THEN NullPointerError(hp)
    ELSE LET hp1 == IF incref THEN Reference(hp, p) ELSE hp
             c1 == IF incref THEN <<"reference">> ELSE <<>>
             init == InitPointer("ScaledFont", p, reported)
         IN  [heap |-> hp1, made |-> TRUE, wrapper |-> init.wrapper,
              calls |-> c1 \o init.calls, result |-> init.result]

\* The handles a caller can pass for a wrapper of class cls: ffi.NULL, or a
\* live foreign object of the matching kind.
Pointers(cls) ==
    {Null} \cup {h \in Handles : Alive(heap, h) /\ heap[h].kind = KindOf(cls)}

\* A caller that wraps without incref hands its own reference to the wrapper:
\* it must hold one, and no longer holds it afterwards.
CanWrap(p, incref) == IF p = Null \/ incref THEN TRUE ELSE heap[p].ext > 0
HandOver(hp, p, incref) ==
    IF p # Null /\ ~incref THEN [hp EXCEPT ![p].ext = @ - 1] ELSE hp

\* The wrapper objects are kept as a multiset: two wrappers of the same class,
\* pointer and state are interchangeable.
One(wr) == SetToBag({wr})
Replace(ws, old, new) == (ws (-) One(old)) (+) One(new)
NumWrappers == BagCardinality(wrappers)

\* The state after a wrapping operation `op` that produced `res`.
Wrapped(op, cls, p, incref, res, new) ==
    /\ wrappers' = IF res.made THEN wrappers (+) One(res.wrapper) ELSE wrappers
    /\ heap' = HandOver(res.heap, p, incref)
    /\ crashed' = (res.result = "crash")
    /\ last' = [op |-> op, cls |-> cls, ptr |-> p, incref |-> incref,
                calls |-> res.calls, result |-> res.result,
                w |-> IF res.made THEN res.wrapper ELSE NoWrapper,
                made |-> new]
    /\ UNCHANGED <<doubleFree, gvars, ovars, vvars>>

\* ---------------------------------------------------------------- actions
\* The program is single-threaded and every operation is synchronous: while
\* a method call is in progress the caller does nothing else; only the
\* collector can run.
Idle == ~crashed /\ \A wr \in BagToSet(wrappers) : wr.st # "inop"
CanMake == Idle /\ NumWrappers < MaxWrappers

\* FontFace._from_pointer(pointer, incref), called by a collaborator.
FaceFromPointer ==
    \E p \in Pointers("FontFace"), incref \in BOOLEAN :
      \E reported \in Reported(p) :
        /\ CanMake
        /\ CanWrap(p, incref)
        /\ Wrapped("FontFace._from_pointer", "FontFace", p, incref,
                   FontFaceFromPointer(heap, p, incref, reported), Null)

\* ScaledFont._from_pointer(pointer, incref), called by a collaborator.
ScaledFromPointer ==
    \E p \in Pointers("ScaledFont"), incref \in BOOLEAN :
      \E reported \in Reported(p) :
        /\ CanMake
        /\ CanWrap(p, incref)
        /\ Wrapped("ScaledFont._from_pointer", "ScaledFont", p, incref,
                   ScaledFontFromPointer(heap, p, incref, reported), Null)

\* ScaledFont.get_font_face(): the face the foreign scaled font holds, wrapped
\* with incref=True.
GetFontFace ==
    \E wr \in BagToSet(wrappers), reported \in Statuses :
        /\ CanMake
        /\ wr.st = "live"
        /\ wr.cls = "ScaledFont"
        /\ Alive(heap, wr.ptr)
        /\ LET p == heap[wr.ptr].face
           IN  Wrapped("ScaledFont.get_font_face", "FontFace", p, TRUE,
                       FontFaceFromPointer(heap, p, TRUE, reported), Null)

\* FontFace(pointer), ScaledFont._init_pointer(self, pointer) and
\* FontOptions._init_pointer(self, pointer) on a handle the caller supplies.
DirectInit ==
    \E cls \in {"FontFace", "ScaledFont", "FontOptions"} :
      \E p \in Pointers(cls) :
       \E reported \in Reported(p) :
        /\ CanMake
        /\ CanWrap(p, FALSE)
        /\ LET init == InitPointer(cls, p, reported)
           IN  Wrapped("__init__", cls, p, FALSE,
                       [heap |-> heap, made |-> TRUE, wrapper |-> init.wrapper,
                        calls |-> init.calls, result |-> init.result], Null)

\* A constructor that creates its foreign object: cairo_*_create, then the
\* base initialisation on the handle it returned.
Created(op, cls, tag, status) ==
    LET h == FreshHandle(heap)
        hp1 == [heap EXCEPT ![h] = NewObject(KindOf(cls), tag)]
        init == InitPointer(cls, h, status)
    IN  /\ CanMake
        /\ h # Null
        /\ Wrapped(op, cls, h, TRUE,
                   [heap |-> hp1, made |-> TRUE, wrapper |-> init.wrapper,
                    calls |-> <<"create">> \o init.calls,
                    result |-> init.result], h)

\* ToyFontFace(family, slant, weight)
ToyFontFaceInit ==
    \E status \in Statuses :
        Created("ToyFontFace.__init__", "ToyFontFace", FONT_TYPE_TOY, status)

\* FontOptions()
FontOptionsInit ==
    \E status \in Statuses :
        Created("FontOptions.__init__", "FontOptions", FONT_TYPE_TOY, status)

\* A method of a live wrapper is entered: the call holds the wrapper.
BeginOp ==
    \E wr \in BagToSet(wrappers) :
        /\ Idle
        /\ wr.st = "live"
        /\ wrappers' = Replace(wrappers, wr, [wr EXCEPT !.st = "inop"])
        /\ last' = NoOp
        /\ UNCHANGED <<heap, crashed, doubleFree, gvars, ovars, vvars>>

\* The method returns.
EndOp ==
    \E wr \in BagToSet(wrappers) :
        /\ ~crashed
        /\ wr.st = "inop"
        /\ wrappers' = Replace(wrappers, wr, [wr EXCEPT !.st = "live"])
        /\ last' = NoOp
        /\ UNCHANGED <<heap, crashed, doubleFree, gvars, ovars, vvars>>

\* The last Python reference to a wrapper is dropped; no call can hold it.
DropRef ==
    \E wr \in BagToSet(wrappers) :
        /\ Idle
        /\ wr.st = "live"
        /\ wrappers' = Replace(wrappers, wr, [wr EXCEPT !.st = "garbage"])
        /\ last' = NoOp
        /\ UNCHANGED <<heap, crashed, doubleFree, gvars, ovars, vvars>>

\* The collector reclaims an unreachable wrapper; the release action attached
\* by ffi.gc, if any, is called on its pointer.
Collect ==
    \E wr \in BagToSet(wrappers) :
        /\ ~crashed
        /\ wr.st = "garbage"
        /\ wrappers' = Replace(wrappers, wr,
                               [wr EXCEPT !.st = "dead",
                                          !.rel = IF wr.gc THEN @ + 1 ELSE @])
        /\ heap' = IF wr.gc THEN Destroy(heap, wr.ptr) ELSE heap
        /\ doubleFree' = (doubleFree \/ (wr.gc /\ IsDoubleFree(heap, wr.ptr)))
        /\ last' = NoOp
        /\ UNCHANGED <<crashed, gvars, ovars, vvars>>

\* A caller outside the wrappers gives up a reference it holds.
ExtRelease ==
    \E h \in Handles :
        /\ Idle
        /\ Alive(heap, h)
        /\ heap[h].ext > 0
        /\ heap' = Unref([heap EXCEPT ![h].ext = @ - 1], h)
        /\ last' = NoOp
        /\ UNCHANGED <<wrappers, crashed, doubleFree, gvars, ovars, vvars>>

\* ================================================= ScaledFont.text_to_glyphs
\* The foreign pointers of the call: ffi.NULL and the two arrays the shaping
\* call can allocate.
NULL == "NULL"
GlyphArray == "glyph_array"
ClusterArray == "cluster_array"

\* The entries the shaping call can write: cairo_glyph_t {index, x, y} and
\* cairo_text_cluster_t {num_bytes, num_glyphs}.
GlyphEntries == {[index |-> 7, x |-> 0, y |-> 0], [index |-> 8, x |-> 5, y |-> 0]}
ClusterEntries == {[num_bytes |-> 1, num_glyphs |-> 1],
                   [num_bytes |-> 2, num_glyphs |-> 1]}
SeqsUpTo(S, n) == UNION {[1..k -> S] : k \in 0..n}


Arrays == {GlyphArray, ClusterArray}
NoBuffer == [alloc |-> FALSE, data |-> <<>>, frees |-> <<>>]
NoGuard == [ptr |-> NULL, fn |-> "none", st |-> "none"]

\* The deallocator each guard is made with (lines 352 and 355).
DeallocatorSwapped(a) ==
    IF a = GlyphArray THEN "cairo_text_cluster_free" ELSE "cairo_glyph_free"

Deallocator(a) ==
    IF a = GlyphArray THEN "cairo_glyph_free" ELSE "cairo_text_cluster_free"

\* The cluster output arguments of the call (lines 340-347): fresh output
\* slots when with_clusters, ffi.NULL otherwise.
ClusterArgs(with_clusters) ==
    IF with_clusters THEN "slot" ELSE NULL

\* xrange(num_glyphs[0]) / xrange(num_clusters[0]): how many entries are read.
CopyCountShort(n) == IF n > 0 THEN n - 1 ELSE 0

CopyCount(n) == n

\* (glyph.index, glyph.x, glyph.y) and (cluster.num_bytes, cluster.num_glyphs):
\* the entry's fields, copied into a tuple of Python numbers.
Owned(a, e) ==
    IF a = GlyphArray THEN <<e.index, e.x, e.y>>
    ELSE <<e.num_bytes, e.num_glyphs>>

\* glyphs[i] / clusters[i]: entry i of the array behind the guard, or whatever
\* the memory holds once the array is freed.
Entry(a, i) ==
    IF fbuf[a].frees = <<>> /\ fbuf[a].alloc
    THEN {fbuf[a].data[i]}
    ELSE IF a = GlyphArray THEN GlyphEntries ELSE ClusterEntries

TgInit ==
    /\ tpc = "idle"
    /\ targs = [with_clusters |-> FALSE, clusters |-> NULL]
    /\ tstatus = "SUCCESS"
    /\ fbuf = [a \in Arrays |-> NoBuffer]
    /\ tnum = [a \in Arrays |-> 0]
    /\ guard = [a \in Arrays |-> NoGuard]
    /\ tlist = [a \in Arrays |-> <<>>]
    /\ tret = <<>>
    /\ freeCalls = <<>>
    /\ readFreed = FALSE

\* Lines 338-351: the output slots are made and the shaping call runs. It
\* reports a status; on success it has allocated the glyph array (possibly
\* not, for no glyphs) and, only if it was given cluster slots, the cluster
\* array; on failure it may or may not leave an allocated array behind.
TgCall ==
    \E with_clusters \in BOOLEAN, status \in Statuses,
       gs \in SeqsUpTo(GlyphEntries, MaxGlyphs),
       cs \in SeqsUpTo(ClusterEntries, MaxClusters),
       galloc \in BOOLEAN, calloc \in BOOLEAN :
        LET cargs == ClusterArgs(with_clusters)
            ok == status = "SUCCESS"
            gdata == IF ok /\ galloc THEN gs ELSE <<>>
            cgiven == cargs # NULL
            cdata == IF ok /\ calloc /\ cgiven THEN cs ELSE <<>>
        IN  /\ tpc = "idle"
            /\ ok => (galloc \/ gs = <<>>)
            /\ ok => (calloc \/ cs = <<>>)
            /\ (~ok) => (gs = <<>> /\ cs = <<>>)
            /\ (~with_clusters) => (cs = <<>> /\ ~calloc)
            /\ targs' = [with_clusters |-> with_clusters, clusters |-> cargs]
            /\ tstatus' = status
            /\ fbuf' = [a \in Arrays |->
                          IF a = GlyphArray
                          THEN [alloc |-> galloc, data |-> gdata, frees |-> <<>>]
                          ELSE [alloc |-> calloc /\ cgiven, data |-> cdata,
                                frees |-> <<>>]]
            /\ tnum' = [a \in Arrays |->
                          IF a = GlyphArray THEN Len(gdata) ELSE Len(cdata)]
            /\ tpc' = "called"
            /\ UNCHANGED <<hvars, ovars, vvars, guard, tlist, tret, freeCalls, readFreed>>

\* glyphs[0] / clusters[0]: the array the call stored in the slot, or NULL.
Slot(a) == IF fbuf[a].alloc THEN a ELSE NULL

\* Lines 352-355: each output pointer is put under ffi.gc with its
\* deallocator, the cluster pointer only when with_clusters.
TgGuard ==
    /\ tpc = "called"
    /\ guard' = [a \in Arrays |->
                   IF a = GlyphArray \/ targs.with_clusters
                   THEN [ptr |-> Slot(a), fn |-> Deallocator(a), st |-> "held"]
                   ELSE NoGuard]
    /\ tpc' = "guarded"
    /\ UNCHANGED <<hvars, ovars, vvars, targs, tstatus, fbuf, tnum, tlist, tret, freeCalls, readFreed>>

\* The guards that exist become unreachable: nothing refers to them any more.
Dropped(g) == IF g.st = "held" THEN [g EXCEPT !.st = "unreachable"] ELSE g

\* Line 356: _check_status(status). A failure raises: the frame is left and
\* both guards become unreachable.
TgCheck ==
    /\ tpc = "guarded"
    /\ IF CheckStatus(tstatus) = "ok"
       THEN /\ tpc' = "copy_glyphs"
            /\ UNCHANGED guard
       ELSE /\ tpc' = "raised"
            /\ guard' = [a \in Arrays |-> Dropped(guard[a])]
    /\ UNCHANGED <<hvars, ovars, vvars, targs, tstatus, fbuf, tnum, tlist, tret, freeCalls, readFreed>>

\* One iteration of a list comprehension over array a (lines 357-360 and
\* 362-365): entry i is read through the guard and copied.
CopyEntry(a) ==
    LET i == Len(tlist[a]) + 1
    IN  /\ i <= CopyCount(tnum[a])
        /\ \E e \in Entry(a, i) :
              tlist' = [tlist EXCEPT ![a] = Append(@, Owned(a, e))]
        /\ readFreed' = (readFreed \/ fbuf[a].frees # <<>> \/ ~fbuf[a].alloc)
        /\ UNCHANGED <<hvars, ovars, vvars, tpc, targs, tstatus, fbuf, tnum, guard, tret, freeCalls>>

TgCopyGlyph == tpc = "copy_glyphs" /\ CopyEntry(GlyphArray)

\* Line 357: the finished list is bound to `glyphs`; the glyph guard it
\* replaces becomes unreachable. Without clusters the list is returned
\* (line 368).
TgBindGlyphs ==
    /\ tpc = "copy_glyphs"
    /\ Len(tlist[GlyphArray]) >= CopyCount(tnum[GlyphArray])
    /\ guard' = [guard EXCEPT ![GlyphArray] = Dropped(@)]
    /\ IF targs.with_clusters
       THEN tpc' = "copy_clusters" /\ UNCHANGED tret
       ELSE tpc' = "returned" /\ tret' = <<tlist[GlyphArray]>>
    /\ UNCHANGED <<hvars, ovars, vvars, targs, tstatus, fbuf, tnum, tlist, freeCalls, readFreed>>

TgCopyCluster == tpc = "copy_clusters" /\ CopyEntry(ClusterArray)

\* Lines 362-366: the finished list is bound to `clusters`, the cluster guard
\* becomes unreachable and (glyphs, clusters, cluster_flags[0]) is returned.
TgBindClusters ==
    /\ tpc = "copy_clusters"
    /\ Len(tlist[ClusterArray]) >= CopyCount(tnum[ClusterArray])
    /\ guard' = [guard EXCEPT ![ClusterArray] = Dropped(@)]
    /\ tpc' = "returned"
    /\ tret' = <<tlist[GlyphArray], tlist[ClusterArray], "flags">>
    /\ UNCHANGED <<hvars, ovars, vvars, targs, tstatus, fbuf, tnum, tlist, freeCalls, readFreed>>

\* The collector reclaims an unreachable ffi.gc object and calls its
\* deallocator on its pointer (a no-op on NULL).
TgCollect ==
    \E a \in Arrays :
        /\ guard[a].st = "unreachable"
        /\ guard' = [guard EXCEPT ![a].st = "run"]
        /\ freeCalls' = Append(freeCalls, <<guard[a].fn, guard[a].ptr>>)
        /\ fbuf' = IF guard[a].ptr = NULL THEN fbuf
                   ELSE [fbuf EXCEPT ![guard[a].ptr].frees = Append(@, guard[a].fn)]
        /\ UNCHANGED <<hvars, ovars, vvars, tpc, targs, tstatus, tnum, tlist, tret, readFreed>>

TgNext ==
    \/ TgCall
    \/ TgGuard
    \/ TgCheck
    \/ TgCopyGlyph
    \/ TgBindGlyphs
    \/ TgCopyCluster
    \/ TgBindClusters
    \/ TgCollect

\* ================================================================ FontOptions
\* The options with a set_* method and some of their values. "DEFAULT" is
\* the default/unset value of each (ANTIALIAS_DEFAULT, HINT_STYLE_DEFAULT,
\* HINT_METRICS_DEFAULT). subpixel_order, whose setter has the shape of the
\* others, is left out.
Fields == {"antialias", "hint_style", "hint_metrics"}
Values(f) ==
    CASE f = "antialias" -> {"DEFAULT", "GRAY", "BEST"}
      [] f = "hint_style" -> {"DEFAULT", "FULL"}
      [] f = "hint_metrics" -> {"DEFAULT", "ON"}
\* cairo_font_options_create(): every option at its default.
AllDefault == [f \in Fields |-> "DEFAULT"]


\* The options a scaled font can have been created with: the defaults
\* (options=None) or explicit ones.
ScaledFontOptions ==
    {AllDefault,
     [f \in Fields |-> CASE f = "antialias" -> "BEST"
                         [] f = "hint_style" -> "FULL"
                         [] f = "hint_metrics" -> "ON"]}

Slots == 1..MaxOptions
NoInstance == [st |-> "none", ptr |-> Null]
NoCall == [op |-> "none", status |-> "SUCCESS", result |-> "ok"]
\* What a call to `op` leaves in olast when its status check got `status`:
\* the call that returned, or the error that was raised instead.
Outcome(op, status) ==
    IF CheckStatus(status) = "ok"
    THEN [op |-> op, status |-> status, result |-> "ok"]
    ELSE [op |-> "raised", status |-> status, result |-> "CairoError"]

\* The lowest handle with no foreign object behind it (Null when none is left).
FreeOptHandle ==
    IF \E h \in Slots : ~ofo[h].alive
    THEN CHOOSE h \in Slots : ~ofo[h].alive /\ \A k \in Slots : ~ofo[k].alive => h <= k
    ELSE Null
FreeSlot ==
    IF \E i \in Slots : oinst[i].st = "none"
    THEN CHOOSE i \in Slots :
            oinst[i].st = "none" /\ \A k \in Slots : oinst[k].st = "none" => i <= k
    ELSE Null

\* cairo_font_options_merge(self, other), as merge()'s documentation has it:
\* the non-default options of other replace the values of self.
MergeValuesAll(self, other) == other

MergeValues(self, other) ==
    [f \in Fields |-> IF other[f] # "DEFAULT" THEN other[f] ELSE self[f]]

\* cairo_font_options_equal and cairo_font_options_hash cover every option.
Equal(a, b) == \A f \in Fields : a[f] = b[f]
Code(v) ==
    CASE v = "DEFAULT" -> 0
      [] v \in {"GRAY", "FULL", "ON"} -> 1
      [] OTHER -> 2
Hash(a) ==
    Code(a["antialias"]) + 4 * Code(a["hint_style"])
        + 16 * Code(a["hint_metrics"])

\* The handle copy() wraps: the one cairo_font_options_copy returned, a new
\* foreign object.
CopyHandleShared(src, new) == src

CopyHandle(src, new) == new

\* The instance values, read through each instance's own pointer.
ValueOf(inst, fo, i) == fo[inst[i].ptr].val
Live(i) == oinst[i].st = "live"

\* A new instance around handle h, whose status check reported `status`.
Constructed(op, i, h, val, status) ==
    LET r == CheckStatus(status)
    IN  /\ ofo' = [ofo EXCEPT ![h] = [alive |-> TRUE,
                                      val |-> IF r = "ok" THEN val ELSE AllDefault]]
        /\ oinst' = [oinst EXCEPT ![i] =
                        [st |-> IF r = "ok" THEN "live" ELSE "failed", ptr |-> h]]
        /\ olast' = Outcome(op, status)
        /\ UNCHANGED <<hvars, gvars, vvars>>

\* FontOptions(): cairo_font_options_create, then _init_pointer.
OptInit ==
    \E status \in Statuses :
        /\ FreeSlot # Null /\ FreeOptHandle # Null
        /\ Constructed("FontOptions", FreeSlot, FreeOptHandle, AllDefault, status)

\* FontOptions.copy(): cairo_font_options_copy, then _init_pointer on the
\* handle it returned.
OptCopy(i) ==
    \E status \in Statuses :
        /\ Live(i)
        /\ FreeSlot # Null /\ FreeOptHandle # Null
        /\ LET h == CopyHandle(oinst[i].ptr, FreeOptHandle)
           IN  Constructed("copy", FreeSlot, h, ValueOf(oinst, ofo, i), status)

\* set_antialias, set_hint_style, set_hint_metrics: the
\* foreign setter (which does nothing on an object in error), then
\* self._check_status().
OptSet(i, f, v) ==
    \E status \in Statuses :
        /\ Live(i)
        /\ ofo' = IF status = "SUCCESS"
                  THEN [ofo EXCEPT ![oinst[i].ptr].val[f] = v]
                  ELSE ofo
        /\ olast' = Outcome("set", status)
        /\ UNCHANGED <<oinst, hvars, gvars, vvars>>

\* FontOptions.merge(other): cairo_font_options_merge(self, other), then the
\* status of self is checked.
OptMerge(i, j) ==
    \E status \in Statuses :
        /\ Live(i) /\ Live(j)
        /\ ofo' = IF status = "SUCCESS"
                  THEN [ofo EXCEPT ![oinst[i].ptr].val =
                           MergeValues(ValueOf(oinst, ofo, i), ValueOf(oinst, ofo, j))]
                  ELSE ofo
        /\ olast' = Outcome("merge", status)
        /\ UNCHANGED <<oinst, hvars, gvars, vvars>>

\* The collector reclaims instance i (no longer referenced, or never returned
\* because its construction raised): cairo_font_options_destroy runs on its
\* pointer.
OptRelease(i) ==
    /\ oinst[i].st \in {"live", "failed"}
    /\ ofo' = [ofo EXCEPT ![oinst[i].ptr].alive = FALSE,
                          ![oinst[i].ptr].val = AllDefault]
    /\ oinst' = [oinst EXCEPT ![i] = NoInstance]
    /\ olast' = NoCall
    /\ UNCHANGED <<hvars, gvars, vvars>>

\* ScaledFont.get_font_options(): FontOptions(), then
\* cairo_scaled_font_get_font_options fills it (with the defaults when the
\* scaled font is in error); it is returned with no status check.
OptGetFontOptions ==
    \E created \in Statuses, status \in Statuses, v \in ScaledFontOptions :
        /\ FreeSlot # Null /\ FreeOptHandle # Null
        /\ IF CheckStatus(created) = "ok"
           THEN /\ ofo' = [ofo EXCEPT ![FreeOptHandle] =
                             [alive |-> TRUE,
                              val |-> IF status = "SUCCESS" THEN v ELSE AllDefault]]
                /\ oinst' = [oinst EXCEPT ![FreeSlot] =
                                [st |-> "live", ptr |-> FreeOptHandle]]
                /\ olast' = [op |-> "get_font_options", status |-> status,
                             result |-> "ok"]
                /\ UNCHANGED <<hvars, gvars, vvars>>
           ELSE Constructed("get_font_options", FreeSlot, FreeOptHandle,
                            AllDefault, created)

\* get_font_matrix, get_ctm, get_scale_matrix, extents, text_extents and
\* glyph_extents: each fills its output with one foreign call and calls
\* self._check_status() before it returns the output.
ScaledFontQuery ==
    \E status \in Statuses :
        /\ olast' = Outcome("query", status)
        /\ UNCHANGED <<ofo, oinst, hvars, gvars, vvars>>

OptIdle ==
    /\ ofo = [h \in Slots |-> [alive |-> FALSE, val |-> AllDefault]]
    /\ oinst = [i \in Slots |-> NoInstance]
    /\ olast = NoCall

OptNext ==
    \/ OptInit
    \/ \E i \in Slots : OptCopy(i)
    \/ \E i \in Slots, f \in Fields : \E v \in Values(f) : OptSet(i, f, v)
    \/ \E i \in Slots, j \in Slots : OptMerge(i, j)
    \/ \E i \in Slots : OptRelease(i)
    \/ OptGetFontOptions
    \/ ScaledFontQuery

\* ===================================================== FontOptions variations
\* Python values: None, str (a sequence of code points) and bytes.
None == [type |-> "NoneType", v |-> <<>>]
Str(cs) == [type |-> "str", v |-> cs]
PyBytes(bs) == [type |-> "bytes", v |-> bs]
\* The code points a str argument is made of: NUL, a, b and e-acute; and the
\* bytes a bytes argument is made of: those of the UTF-8 forms of these.
Chars == {0, 97, 98, 233}
ByteValues == {0, 97, 98, 195, 169}
REPLACEMENT == 65533
PyValues ==
    {None} \cup {Str(cs) : cs \in SeqsUpTo(Chars, MaxLen)}
           \cup {PyBytes(bs) : bs \in SeqsUpTo(ByteValues, MaxLen)}

\* A char * value: ffi.NULL, or a pointer to memory holding the given bytes.
NullChars == [null |-> TRUE, mem |-> <<>>]
CharPtr(bs) == [null |-> FALSE, mem |-> bs]

\* str.encode('utf8'), for code points below U+0800.
RECURSIVE Utf8Encode(_)
Utf8Encode(cs) ==
    IF cs = <<>> THEN <<>>
    ELSE LET c == Head(cs)
         IN  (IF c < 128 THEN <<c>> ELSE <<192 + (c \div 64), 128 + (c % 64)>>)
                 \o Utf8Encode(Tail(cs))

\* bytes.decode('utf8', 'replace'), for one- and two-byte forms: a byte that
\* starts no valid form becomes U+FFFD.
RECURSIVE Utf8Decode(_)
Utf8Decode(bs) ==
    IF bs = <<>> THEN <<>>
    ELSE LET b == Head(bs)
             rest == Tail(bs)
         IN  IF b < 128 THEN <<b>> \o Utf8Decode(rest)
             ELSE IF /\ b >= 194 /\ b < 224
                     /\ rest # <<>> /\ Head(rest) >= 128 /\ Head(rest) < 192
                  THEN <<(b - 192) * 64 + (Head(rest) - 128)>>
                           \o Utf8Decode(Tail(rest))
                  ELSE <<REPLACEMENT>> \o Utf8Decode(rest)

\* The bytes of a C string: those before the first zero byte.
RECURSIVE UpToNul(_)
UpToNul(bs) ==
    IF bs = <<>> \/ Head(bs) = 0 THEN <<>>
    ELSE <<Head(bs)>> \o UpToNul(Tail(bs))

\* _encode_string(string): bytes as they are, str encoded as UTF-8, copied
\* into a new char[] (one longer than the bytes, zero at the end).
EncodeString(x) ==
    CharPtr((IF x.type = "bytes" THEN x.v ELSE Utf8Encode(x.v)) \o <<0>>)

\* cairo_font_options_set_variations keeps strdup(variations), or NULL.
Strdup(p) == IF p.null THEN NullChars ELSE CharPtr(UpToNul(p.mem) \o <<0>>)

\* ffi.string(variations): the bytes up to the terminator.
FfiString(p) == UpToNul(p.mem)

NoVarCall == [op |-> "none", result |-> None, null |-> FALSE]

\* A FontOptions as cairo_font_options_create made it: no variations.
VarIdle ==
    /\ vfo = NullChars
    /\ varg = None
    /\ vlast = NoVarCall

\* set_variations(variations): ffi.NULL for None, else the encoded string, is
\* passed to cairo_font_options_set_variations (which does nothing on an
\* object in error); then self._check_status().
VarSet ==
    \E variations \in PyValues, status \in Statuses :
        LET arg == IF variations = None THEN NullChars
                   ELSE EncodeString(variations)
            ok == CheckStatus(status) = "ok"
        IN  /\ vfo' = IF status = "SUCCESS" THEN Strdup(arg) ELSE vfo
            /\ varg' = IF ok THEN variations ELSE varg
            /\ vlast' = [op |-> IF ok THEN "set_variations" ELSE "raised",
                         result |-> None, null |-> FALSE]
            /\ UNCHANGED <<hvars, gvars, ovars>>

\* get_variations(): the decoded string when the foreign accessor returns a
\* pointer, None (no return statement is reached) when it returns NULL.
VarGet ==
    /\ vlast' = [op |-> "get_variations",
                 result |-> IF vfo # NullChars
                            THEN Str(Utf8Decode(FfiString(vfo)))
                            ELSE None,
                 null |-> vfo.null]
    /\ UNCHANGED <<hvars, gvars, ovars, vfo, varg>>

VarNext ==
    \/ VarSet
    \/ VarGet

\* ========================================================== specifications
\* Initially a collaborator holds a font face (handle 1) and a scaled font
\* (handle 2) made from it; no wrapper exists.
HandleIdle ==
    /\ heap = [h \in Handles |-> NoObject]
    /\ wrappers = EmptyBag
    /\ last = NoOp
    /\ crashed = FALSE
    /\ doubleFree = FALSE

HandleInit ==
    /\ \E tag \in Tags :
         heap = [h \in Handles |->
                   CASE h = 1 -> [NewObject("face", tag) EXCEPT
                                     !.refs = 2, !.ext = 1, !.held = 1]
                     [] h = 2 -> [NewObject("scaled", FONT_TYPE_TOY) EXCEPT
                                     !.ext = 1, !.face = 1]
                     [] OTHER -> NoObject]
    /\ wrappers = EmptyBag
    /\ last = NoOp
    /\ crashed = FALSE
    /\ doubleFree = FALSE

HandleNext ==
    \/ FaceFromPointer
    \/ ScaledFromPointer
    \/ GetFontFace
    \/ DirectInit
    \/ ToyFontFaceInit
    \/ FontOptionsInit
    \/ BeginOp
    \/ EndOp
    \/ DropRef
    \/ Collect
    \/ ExtRelease

vars == <<hvars, gvars, ovars, vvars>>

\* The wrappers and the foreign reference counts.
Init == HandleInit /\ TgInit /\ OptIdle /\ VarIdle
Next == HandleNext
Spec == Init /\ [][Next]_vars

\* One call of ScaledFont.text_to_glyphs and the collector.
GlyphInit == HandleIdle /\ TgInit /\ OptIdle /\ VarIdle
SpecGlyphs == GlyphInit /\ [][TgNext]_vars

\* FontOptions instances and the ScaledFont queries.
OptionsInit == HandleIdle /\ TgInit /\ OptIdle /\ VarIdle
SpecOptions == OptionsInit /\ [][OptNext]_vars

\* The variations of one FontOptions instance.
VariationsInit == HandleIdle /\ TgInit /\ OptIdle /\ VarIdle
SpecVariations == VariationsInit /\ [][VarNext]_vars

\* ------------------------------------------------------------------ claims
Wr == BagToSet(wrappers)

\* The number of wrapper objects that satisfy P.
Count(P(_)) ==
    BagCardinality([wr \in {x \in Wr : P(x)} |-> wrappers[wr]])

\* C1: every wrapper has a release action attached, also when its construction
\* raised at the status check; the release action has run exactly once when
\* the wrapper is gone, never more than once, and not at all while the wrapper
\* is reachable or one of its methods is in progress.
C1_ReleaseExactlyOnce ==
    \A wr \in Wr :
        /\ wr.gc
        /\ wr.rel <= 1
        /\ (wr.st = "dead") <=> (wr.rel = 1)
        /\ wr.st \in {"live", "inop"} => wr.rel = 0

\* A wrapper whose construction raised at the status check has been collected
\* and released once, while another wrapper is still in a method call.
C1_Witness ==
    \E wr \in Wr, v \in Wr :
        /\ wr.raised /\ wr.st = "dead" /\ wr.rel = 1 /\ wr.ptr # Null
        /\ v.st = "inop"

\* The wrappers that still owe a release to handle h, and those still in use.
Holding(h) ==
    LET Owes(wr) == wr.ptr = h /\ wr.gc /\ wr.rel = 0 IN Count(Owes)
LiveOn(h) ==
    LET Uses(wr) == wr.ptr = h /\ wr.st \in {"live", "inop"} IN Count(Uses)

\* C2: the foreign reference count of every handle is the references held
\* outside the wrappers plus one per wrapper not yet released, so it is at
\* least the number of live wrappers, it is back at the outside count when all
\* wrappers are released, and no release reaches a freed object.
C2_RefCountSymmetry ==
    /\ ~doubleFree
    /\ \A h \in Handles :
          /\ heap[h].refs = heap[h].ext + heap[h].held + Holding(h)
          /\ heap[h].refs >= LiveOn(h)
          /\ LiveOn(h) > 0 => Alive(heap, h)

\* Handle 1 was wrapped twice with incref=True (no reference was handed over
\* or given up: ext is still 1), both wrappers are released, and the count is
\* back at its initial value 2.
C2_Witness ==
    /\ NumWrappers = 2
    /\ \A wr \in Wr : wr.ptr = 1 /\ wr.st = "dead" /\ wr.rel = 1
    /\ heap[1].ext = 1 /\ heap[1].held = 1 /\ heap[1].refs = 2

FromPointerOps == {"FontFace._from_pointer", "ScaledFont._from_pointer"}

\* C3: _from_pointer on ffi.NULL raises ValueError having made no foreign
\* call (no reference, no type query, no status query) and no wrapper.
C3_NullResolveFails ==
    (last.op \in FromPointerOps /\ last.ptr = Null) =>
        /\ last.result = "ValueError"
        /\ last.calls = <<>>
        /\ last.w = NoWrapper

C3_Witness ==
    /\ last.op = "FontFace._from_pointer"
    /\ last.ptr = Null
    /\ last.incref
    /\ last.result = "ValueError"

\* C4: direct construction on ffi.NULL raises the null-handle error at once:
\* no wrapper stores ffi.NULL, no release action is attached to it and it is
\* not passed to the status query.
C4_NullNeverConstructed ==
    /\ \A wr \in Wr : wr.ptr # Null
    /\ (last.op = "__init__" /\ last.ptr = Null) =>
          /\ last.result = "ValueError"
          /\ last.calls = <<>>
          /\ last.w = NoWrapper

\* C5: FontFace._from_pointer on a non-null handle makes a wrapper of the
\* class registered for the handle's type tag, of FontFace for any other tag
\* (the lookup raises nothing), around the very handle it was given, and
\* creates no foreign object.
C5_TypeDispatch ==
    (last.op \in {"FontFace._from_pointer", "ScaledFont.get_font_face"}
        /\ last.ptr # Null) =>
        /\ last.result \in {"ok", "CairoError"}
        /\ last.w \in Wr
        /\ last.w.cls =
              (IF heap[last.ptr].tag = FONT_TYPE_TOY THEN "ToyFontFace"
                                                    ELSE "FontFace")
        /\ last.w.ptr = last.ptr
        /\ last.result = "ok" <=> last.w.st = "live"
        /\ last.made = Null
        /\ \A i \in 1..Len(last.calls) : last.calls[i] # "create"

\* A handle with an unregistered tag was resolved to a live generic FontFace.
C5_Witness ==
    /\ last.op = "FontFace._from_pointer"
    /\ last.ptr # Null
    /\ heap[last.ptr].tag # FONT_TYPE_TOY
    /\ last.result = "ok"
    /\ last.w.cls = "FontFace"
    /\ last.w.ptr = last.ptr


\* ------------------------------------------------- claims: text_to_glyphs
\* The call is over and every guard that was made has run.
Settled ==
    /\ tpc \in {"returned", "raised"}
    /\ \A a \in Arrays : guard[a].st \in {"none", "run"}

\* C6: every buffer the shaping call allocated is released at most once while
\* the call and the collector run, exactly once when both are done, on the
\* success path and on the failure path alike, and only by its own
\* deallocator (cairo_glyph_free for the glyph array, cairo_text_cluster_free
\* for the cluster array); without with_clusters the cluster outputs are
\* ffi.NULL, no cluster array exists and cairo_text_cluster_free is not called.
C6_BuffersReleasedOnce ==
    /\ \A a \in Arrays :
          /\ Len(fbuf[a].frees) <= 1
          /\ \A k \in 1..Len(fbuf[a].frees) :
                fbuf[a].frees[k] = (IF a = GlyphArray THEN "cairo_glyph_free"
                                    ELSE "cairo_text_cluster_free")
          /\ ~fbuf[a].alloc => fbuf[a].frees = <<>>
          /\ (Settled /\ fbuf[a].alloc) => Len(fbuf[a].frees) = 1
    /\ \A k \in 1..Len(freeCalls) :
          freeCalls[k][2] # NULL =>
              \A n \in 1..Len(freeCalls) : freeCalls[n][2] = freeCalls[k][2] => n = k
    /\ (tpc # "idle" /\ ~targs.with_clusters) =>
          /\ targs.clusters = NULL
          /\ ~fbuf[ClusterArray].alloc
          /\ guard[ClusterArray] = NoGuard
          /\ \A k \in 1..Len(freeCalls) : freeCalls[k][1] # "cairo_text_cluster_free"

\* The shaping call failed and left both arrays allocated; the error was
\* raised and each array has been released once by its own deallocator.
C6_Witness ==
    /\ tpc = "raised"
    /\ tstatus # "SUCCESS"
    /\ targs.with_clusters
    /\ fbuf[GlyphArray].alloc /\ fbuf[GlyphArray].frees = <<"cairo_glyph_free">>
    /\ fbuf[ClusterArray].alloc
    /\ fbuf[ClusterArray].frees = <<"cairo_text_cluster_free">>

\* The owned list of array a is complete: one tuple per entry the shaping call
\* reported, in the order of the array.
Complete(a) ==
    /\ Len(tlist[a]) = tnum[a]
    /\ \A i \in 1..tnum[a] :
          tlist[a][i] = (IF a = GlyphArray
                         THEN <<fbuf[a].data[i].index, fbuf[a].data[i].x,
                                fbuf[a].data[i].y>>
                         ELSE <<fbuf[a].data[i].num_bytes,
                                fbuf[a].data[i].num_glyphs>>)
\* The arrays the call copies from.
Copied == IF targs.with_clusters THEN Arrays ELSE {GlyphArray}

\* C7: no entry is read from an array that is not allocated or already freed;
\* when an array's deallocator has run after a successful shaping call, the
\* owned list of that array is complete, with exactly as many entries as the
\* call reported and in foreign order; what is returned is the complete owned
\* lists, which hold numbers only.
C7_CopyBeforeOwnRelease ==
    /\ ~readFreed
    /\ \A a \in Copied :
          (tstatus = "SUCCESS" /\ fbuf[a].frees # <<>>) => Complete(a)
    /\ tpc = "returned" =>
          /\ \A a \in Copied : Complete(a)
          /\ tret[1] = tlist[GlyphArray]
          /\ targs.with_clusters => tret[2] = tlist[ClusterArray]
          /\ \A k \in 1..Len(tret) : tret[k] \notin Arrays
    /\ \A a \in Arrays : \A i \in 1..Len(tlist[a]) :
          \A k \in 1..Len(tlist[a][i]) : tlist[a][i][k] \in Nat

\* Both lists were returned, each with two entries, and both arrays have been
\* released since.
C7_Witness ==
    /\ tpc = "returned"
    /\ targs.with_clusters
    /\ Len(tret[1]) = 2 /\ Len(tret[2]) = 2
    /\ tret[1][1] # tret[1][2]
    /\ \A a \in Arrays : fbuf[a].frees # <<>>

\* C7 as stated: both owned lists are complete before either array is
\* released.
C7_CopyBeforeAnyRelease ==
    (tstatus = "SUCCESS" /\ \E a \in Arrays : fbuf[a].frees # <<>>) =>
        \A a \in Copied : Complete(a)

\* ---------------------------------------------------- claims: FontOptions
\* C8: no operation returns normally when the foreign status after its
\* foreign call is not success.
C8_StatusCheckedBeforeReturn ==
    olast.status # "SUCCESS" => olast.result # "ok"

\* The value of instance i before and after a step.
Val(i) == ofo[oinst[i].ptr].val
ValAfter(i) == ofo'[oinst'[i].ptr].val
\* merge() on instance i with instance j as other has returned normally.
Merged(i, j) == olast'.op = "merge" /\ OptMerge(i, j)

\* C9: merge(other) is a directional overlay of other onto self: every field
\* of other that is not at its default replaces self's value, every other
\* field of self is left as it was; so a at BEST stays BEST after a.merge(b)
\* with b at the default, and b becomes BEST after b.merge(a).
C9_MergeOverlaysOther ==
    [][\A i \in Slots, j \in Slots :
          Merged(i, j) =>
              /\ \A f \in Fields :
                    ValAfter(i)[f] = (IF Val(j)[f] # "DEFAULT" THEN Val(j)[f]
                                      ELSE Val(i)[f])
              /\ (Val(i)["antialias"] = "BEST" /\ Val(j)["antialias"] = "DEFAULT")
                    => ValAfter(i)["antialias"] = "BEST"
              /\ (Val(i)["antialias"] = "DEFAULT" /\ Val(j)["antialias"] = "BEST")
                    => ValAfter(i)["antialias"] = "BEST"]_vars

\* A merge has returned and one instance holds every non-default value of
\* another (antialias BEST among them) next to a value of its own
\* (hint_style FULL) in a field the other has at its default.
C9_Witness ==
    /\ olast.op = "merge"
    /\ \E i \in Slots, j \in Slots :
          /\ i # j /\ Live(i) /\ Live(j)
          /\ Val(j)["antialias"] = "BEST" /\ Val(i)["antialias"] = "BEST"
          /\ Val(j)["hint_style"] = "DEFAULT" /\ Val(i)["hint_style"] = "FULL"
          /\ \A f \in Fields : Val(j)[f] # "DEFAULT" => Val(i)[f] = Val(j)[f]

\* C9 as stated: a field of self at its default becomes other's value and a
\* field of self that is set is left untouched, whatever other's value is.
C9_MergeKeepsSetFields ==
    [][\A i \in Slots, j \in Slots :
          Merged(i, j) =>
              \A f \in Fields :
                  ValAfter(i)[f] = (IF Val(i)[f] = "DEFAULT" THEN Val(j)[f]
                                    ELSE Val(i)[f])]_vars

\* Every live instance other than i is the same object with the same values
\* after the step, and its handle is still alive.
OthersUntouched(i) ==
    \A k \in Slots \ {i} :
        Live(k) =>
            /\ oinst'[k] = oinst[k]
            /\ ofo'[oinst[k].ptr] = ofo[oinst[k].ptr]
            /\ ofo'[oinst[k].ptr].alive

\* C10: copy() returns an instance equal to its source, with an equal hash,
\* around a handle of its own; a set_* or merge call on an instance and the
\* release of an instance leave every other instance (the copy source, a
\* copy, the other of merge) with its values and its live handle; a call
\* that raises leaves every live instance so.
C10_InstancesIndependent ==
    [][/\ \A i \in Slots :
             (olast'.op = "copy" /\ OptCopy(i)) =>
                 \E n \in Slots \ {i} :
                     /\ ~Live(n) /\ oinst'[n].st = "live"
                     /\ oinst'[n].ptr # oinst'[i].ptr
                     /\ \A k \in Slots \ {n} :
                           oinst'[k].st # "none" => oinst'[k].ptr # oinst'[n].ptr
                     /\ ofo'[oinst'[n].ptr].alive
                     /\ Equal(ValAfter(n), ValAfter(i))
                     /\ Hash(ValAfter(n)) = Hash(ValAfter(i))
                     /\ ValAfter(i) = Val(i)
                     /\ OthersUntouched(n)
       /\ \A i \in Slots :
             (olast'.op = "set" /\ \E f \in Fields : \E v \in Values(f) : OptSet(i, f, v))
                 => OthersUntouched(i)
       /\ \A i \in Slots, j \in Slots : Merged(i, j) => OthersUntouched(i)
       /\ \A i \in Slots : (olast' = NoCall /\ OptRelease(i)) => OthersUntouched(i)
       /\ olast'.op = "raised" => OthersUntouched(Null)]_vars

\* After a set_* call two live instances on distinct handles hold different
\* values of one option and the same set value of another.
C10_Witness ==
    /\ olast.op = "set"
    /\ \E i \in Slots, k \in Slots :
          /\ Live(i) /\ Live(k)
          /\ oinst[i].ptr # oinst[k].ptr
          /\ Val(i)["antialias"] = "BEST"
          /\ Val(k)["antialias"] = "GRAY"
          /\ Val(i)["hint_metrics"] = "ON" /\ Val(k)["hint_metrics"] = "ON"


\* ------------------------------------------------ claims: variations
\* C11: get_variations() returns what the last set_variations call that
\* returned was given: None after None, the empty string (not None) after the
\* empty string, s after a non-empty string s; and it returns None exactly
\* when the foreign accessor returned the null pointer.
C11_VariationsRoundTrip ==
    vlast.op = "get_variations" =>
        /\ varg = None => vlast.result = None
        /\ varg = Str(<<>>) => vlast.result = Str(<<>>)
        /\ (varg.type = "str" /\ varg.v # <<>>) => vlast.result = varg
        /\ (vlast.result = None) <=> vlast.null

=============================================================================
